---- MODULE Spec2Model ----
(***************************************************************************)
(* Model of Models/Model_Validation_and_Interpretation.ipynb:              *)
(*   load_model_with_metadata, prepare_input_data, predict_fraud and main. *)
(*                                                                         *)
(* Python values are records [t, n, s]: an int n, a float of n tenths, a   *)
(* str s, or NaN.  Names (dict keys, column names) are TLA+ strings, so    *)
(* the f-string of the one-hot column is a real concatenation.             *)
(***************************************************************************)
EXTENDS Integers, Sequences, FiniteSets, TLC

VARIABLES
    \* ---- a call of prepare_input_data on arbitrary arguments ----
    input_dict,           \* argument: dict attribute name -> value
    expected_features,    \* argument: list of feature names
    categorical_mapping,  \* argument the caller holds: dict raw name -> prefix
    call,                 \* "none" | "explicit" | "default" (mapping omitted)
    result,               \* outcome of the call
    \* ---- one run of main() ----
    pc,                   \* position of main
    artifact,             \* what joblib.load finds at MODEL_PATH
    model,                \* main's local `model`
    feature_names,        \* main's local `feature_names`
    categorical_features, \* main's local `categorical_features`
    training_columns,     \* main's local `training_columns`
    input_df,             \* main's local `input_df`
    prediction,           \* main's local `prediction`
    probability,          \* main's local `probability`
    stdout,               \* lines printed to standard output, in order
    stderr,               \* lines printed to standard error, in order
    exit_status,          \* -1 while running, then 0 or 1
    steps,                \* history: the steps of main entered so far
    consulted,            \* history: hasattr(model, 'feature_names_in_') evaluated
    failed                \* history: the step whose exception main caught

bvars == <<input_dict, expected_features, categorical_mapping, call, result>>
mvars == <<pc, artifact, model, feature_names, categorical_features,
           training_columns, input_df, prediction, probability, stdout,
           stderr, exit_status, steps, consulted, failed>>
vars == <<bvars, mvars>>

-----------------------------------------------------------------------------
(* Bounds *)

MaxFeatures == 2     \* longest expected-feature list tried on the builder
MaxMainFeatures == 2 \* longest feature list stored in an artifact or a model
ProbScale == 2       \* probabilities are k / ProbScale, k in 0..ProbScale

-----------------------------------------------------------------------------
(* Python values *)

PyInt(n) == [t |-> "int", n |-> n, s |-> ""]
PyFloat(tenths) == [t |-> "float", n |-> tenths, s |-> ""]
PyString(s) == [t |-> "str", n |-> 0, s |-> s]
NaN == [t |-> "nan", n |-> 0, s |-> ""]

\* str(value), as the f-strings of prepare_input_data format a value
PyStr(v) ==
    CASE v.t = "int" -> ToString(v.n)
      [] v.t = "float" -> ToString(v.n \div 10) \o "." \o ToString(v.n % 10)
      [] v.t = "str" -> v.s
      [] OTHER -> "nan"

\* a Python list, or the numpy array sklearn keeps in feature_names_in_
PyList(items) == [kind |-> "list", items |-> items]
NdArray(items) == [kind |-> "ndarray", items |-> items]

Range(seq) == {seq[i] : i \in 1..Len(seq)}

\* `x in seq`
Contains(seq, x) == \E i \in 1..Len(seq) : seq[i] = x

\* bool(x) of a list or an array: "True", "False" or "raise".  A list is true
\* when non-empty; an object array of one name is its element's truth; an
\* array of two or more elements has no truth value (ValueError).
Truth(x) ==
    IF x.kind = "list"
    THEN IF Len(x.items) > 0 THEN "True" ELSE "False"
    ELSE IF Len(x.items) = 0 THEN "False"
         ELSE IF Len(x.items) = 1
              THEN IF x.items[1] # "" THEN "True" ELSE "False"
              ELSE "raise"

AmbiguousTruth ==
    "The truth value of an array with more than one element is ambiguous. Use a.any() or a.all()"

\* a dict as a function; d with key k set to v (k may be new)
DictSet(d, k, v) == [x \in DOMAIN d \cup {k} |-> IF x = k THEN v ELSE d[x]]
EmptyDict == <<>>

RECURSIVE DictSetAll(_, _, _)
\* d with every key of ks set by f, one assignment after the other
DictSetAll(d, ks, f) ==
    IF ks = {} THEN d
    ELSE LET k == CHOOSE x \in ks : TRUE
         IN DictSetAll(DictSet(d, k, f[k]), ks \ {k}, f)

-----------------------------------------------------------------------------
(* pandas.DataFrame([row], columns=columns): one row, the given columns in  *)
(* the given order, each cell looked up in the row dict (NaN when absent).  *)

RECURSIVE Dedup(_)
Dedup(seq) ==
    IF seq = <<>> THEN <<>>
    ELSE LET front == Dedup(SubSeq(seq, 1, Len(seq) - 1))
             last == seq[Len(seq)]
         IN IF Contains(front, last) THEN front ELSE Append(front, last)

\* the same frame built without columns=: the row dict's own key order
DataFrame_NoColumns(row, columns) ==
    [columns |-> Dedup(columns),
     data |-> [i \in 1..Len(Dedup(columns)) |->
                 IF Dedup(columns)[i] \in DOMAIN row THEN row[Dedup(columns)[i]] ELSE NaN],
     nrows |-> 1]

DataFrame(row, columns) ==
    [columns |-> columns,
     data |-> [i \in 1..Len(columns) |->
                 IF columns[i] \in DOMAIN row THEN row[columns[i]] ELSE NaN],
     nrows |-> 1]

NoFrame == [columns |-> <<>>, data |-> <<>>, nrows |-> 0]

\* the cell of column c (first occurrence)
Cell(df, c) == df.data[CHOOSE i \in 1..Len(df.columns) : df.columns[i] = c]

-----------------------------------------------------------------------------
(* prepare_input_data *)

NoMapping == [isNone |-> TRUE, map |-> EmptyDict]
Mapping(m) == [isNone |-> FALSE, map |-> m]

NumericalWarning(feature) ==
    "Warning: Numerical feature '" \o feature \o "' not used in model"
CategoryWarning(value, original_feature) ==
    "Warning: Category '" \o PyStr(value) \o "' not found in model for feature '"
        \o original_feature \o "'"

\* f"{encoded_prefix}_{value}" without the separator
encoded_column_NoSeparator(encoded_prefix, value) == encoded_prefix \o PyStr(value)

\* f"{encoded_prefix}_{value}"
encoded_column(encoded_prefix, value) == encoded_prefix \o "_" \o PyStr(value)

\* [f for f in input_dict if f not in categorical_mapping]
numerical_features(in_dict, mapping) ==
    {f \in DOMAIN in_dict : f \notin DOMAIN mapping}

\* the numerical loop writing 1 into the slot instead of the input's value
NumericalStep_Flag(fv, in_dict, expected, mapping) ==
    [values |-> [f \in DOMAIN fv |->
                   IF f \in numerical_features(in_dict, mapping) THEN PyInt(1) ELSE fv[f]],
     warnings |-> {NumericalWarning(f) :
                     f \in {g \in numerical_features(in_dict, mapping) :
                              ~Contains(expected, g)}}]

\* the loop over numerical_features
NumericalStep(fv, in_dict, expected, mapping) ==
    LET used == {f \in numerical_features(in_dict, mapping) : Contains(expected, f)}
        unused == numerical_features(in_dict, mapping) \ used
    IN [values |-> DictSetAll(fv, used, in_dict),
        warnings |-> {NumericalWarning(f) : f \in unused}]

\* the categorical loop without its `if encoded_column in expected_features`
CategoricalStep_NoGuard(fv, in_dict, expected, mapping) ==
    LET present == {o \in DOMAIN mapping : o \in DOMAIN in_dict}
        cols == {encoded_column(mapping[o], in_dict[o]) : o \in present}
    IN [values |-> DictSetAll(fv, cols, [c \in cols |-> PyInt(1)]),
        warnings |-> {}]

\* the loop over categorical_mapping.items(), entered when the mapping is
\* truthy (not None, not empty)
CategoricalStep(fv, in_dict, expected, mapping) ==
    LET present == {o \in DOMAIN mapping : o \in DOMAIN in_dict}
        hit == {o \in present :
                  Contains(expected, encoded_column(mapping[o], in_dict[o]))}
        cols == {encoded_column(mapping[o], in_dict[o]) : o \in hit}
    IN [values |-> DictSetAll(fv, cols, [c \in cols |-> PyInt(1)]),
        warnings |-> {CategoryWarning(in_dict[o], o) : o \in present \ hit}]

Raised(type, message) ==
    [raised |-> type, message |-> message, df |-> NoFrame, warnings |-> {}]

prepare_input_data(in_dict, expected, mapping) ==
    IF Truth(expected) = "raise" THEN Raised("ValueError", AmbiguousTruth)
    ELSE IF Truth(expected) = "False"
    THEN Raised("ValueError", "No expected features provided")
    ELSE IF mapping.isNone /\ DOMAIN in_dict # {}
    THEN \* `f not in None` in the list comprehension
         Raised("TypeError", "argument of type 'NoneType' is not iterable")
    ELSE
    LET feature_values == [f \in Range(expected.items) |-> PyInt(0)]
        num == NumericalStep(feature_values, in_dict, expected.items, mapping.map)
        cat == IF ~mapping.isNone /\ DOMAIN mapping.map # {}
               THEN CategoricalStep(num.values, in_dict, expected.items, mapping.map)
               ELSE [values |-> num.values, warnings |-> {}]
    IN [raised |-> "none", message |-> "",
        df |-> DataFrame(cat.values, expected.items),
        warnings |-> num.warnings \cup cat.warnings]

-----------------------------------------------------------------------------
(* Python objects found in an artifact *)

None == -1

\* a fitted estimator: feature_names_in_ when it has the attribute, whether it
\* is a Pipeline, the input columns its transformer selects by name, and what
\* predict / predict_proba[:, 1] give for the row
Estimator(has, fni, pipeline, required, label, proba) ==
    [type |-> "estimator", has_feature_names_in |-> has, feature_names_in_ |-> fni,
     is_pipeline |-> pipeline, required |-> required, label |-> label,
     proba |-> proba, dict |-> EmptyDict]

\* a dict object
DictObject(d) ==
    [type |-> "dict", has_feature_names_in |-> FALSE, feature_names_in_ |-> PyList(<<>>),
     is_pipeline |-> FALSE, required |-> {}, label |-> None, proba |-> None,
     dict |-> d]

NoObject ==
    [type |-> "none", has_feature_names_in |-> FALSE, feature_names_in_ |-> PyList(<<>>),
     is_pipeline |-> FALSE, required |-> {}, label |-> None, proba |-> None,
     dict |-> EmptyDict]

\* the file at MODEL_PATH: absent, not a pickle, or a pickled object
NoArtifact == [kind |-> "missing", obj |-> NoObject]
CorruptArtifact == [kind |-> "corrupt", obj |-> NoObject]
Pickled(obj) == [kind |-> "object", obj |-> obj]

\* an exception message: its text, and the set of names the text ends with
Msg(text) == [text |-> text, names |-> {}]
Wrap(prefix, msg) == [text |-> prefix \o msg.text, names |-> msg.names]
NoMsg == Msg("")

-----------------------------------------------------------------------------
(* Calls of prepare_input_data on arbitrary arguments *)

InputKeys == {"A", "T", "U", "T_1"}
InputValues == {PyInt(1), PyString("x")}
MappingKeys == {"T", "U"}
Prefixes == {"T", "U"}
FeatureNames == {"A", "T", "T_x", "T_1", "U_x"}

Dicts(keys, values) == UNION {[ks -> values] : ks \in SUBSET keys}
Lists(names, maxlen) == UNION {[1..n -> names] : n \in 0..maxlen}

\* the values main's variables hold while main is not running
MainIdle ==
    /\ pc = "idle"
    /\ artifact = NoArtifact
    /\ model = NoObject
    /\ feature_names = PyList(<<>>)
    /\ categorical_features = PyList(<<>>)
    /\ training_columns = PyList(<<>>)
    /\ input_df = NoFrame
    /\ prediction = None
    /\ probability = None
    /\ stdout = <<>>
    /\ stderr = <<>>
    /\ exit_status = -1
    /\ steps = <<>>
    /\ consulted = FALSE
    /\ failed = "none"

InitBuilder ==
    /\ input_dict \in Dicts(InputKeys, InputValues)
    /\ expected_features \in {PyList(l) : l \in Lists(FeatureNames, MaxFeatures)}
    /\ categorical_mapping \in Dicts(MappingKeys, Prefixes)
    /\ call = "none"
    /\ result = Raised("none", "")
    /\ MainIdle

\* prepare_input_data(input_dict, expected_features, categorical_mapping=...)
CallExplicit ==
    /\ call = "none"
    /\ call' = "explicit"
    /\ result' = prepare_input_data(input_dict, expected_features,
                                    Mapping(categorical_mapping))
    /\ UNCHANGED <<input_dict, expected_features, categorical_mapping, mvars>>

\* prepare_input_data(input_dict, expected_features): categorical_mapping=None
CallDefault ==
    /\ call = "none"
    /\ call' = "default"
    /\ result' = prepare_input_data(input_dict, expected_features, NoMapping)
    /\ UNCHANGED <<input_dict, expected_features, categorical_mapping, mvars>>

NextBuilder == CallExplicit \/ CallDefault

SpecBuilder == InitBuilder /\ [][NextBuilder]_vars

-----------------------------------------------------------------------------
(* Properties of prepare_input_data *)

StartsWith(c, p) == Len(c) >= Len(p) /\ SubSeq(c, 1, Len(p)) = p

Expected == expected_features.items
Returned == call # "none" /\ result.raised = "none"
\* the mapping the call ran with
UsedMapping == IF call = "default" THEN EmptyDict ELSE categorical_mapping
\* categorical attributes of the input: mapping keys present in the record
Present == {o \in DOMAIN UsedMapping : o \in DOMAIN input_dict}
Derived(o) == UsedMapping[o] \o "_" \o PyStr(input_dict[o])
\* attributes of the input treated as numeric
Numeric == {f \in DOMAIN input_dict : f \notin DOMAIN UsedMapping}
DictRemove(d, k) == [x \in DOMAIN d \ {k} |-> d[x]]

\* C1: for every non-empty expected feature list, every input record and
\* every categorical mapping, the call returns a one-row table whose columns
\* are exactly the expected feature list in that order, every slot filled.
C1_ColumnsAreExpected ==
    (call = "explicit" /\ Expected # <<>>) =>
        /\ result.raised = "none"
        /\ result.df.nrows = 1
        /\ result.df.columns = Expected
        /\ Len(result.df.data) = Len(Expected)
        /\ \A i \in 1..Len(Expected) : result.df.data[i] # NaN

C1_Witness ==
    /\ call = "explicit"
    /\ Len(Expected) = 2
    /\ Expected[1] = "T_x" /\ Expected[2] = "A"
    /\ "U" \in Numeric /\ "T" \in Present
    /\ result.df.columns = <<"T_x", "A">>

\* C2: an input attribute that is neither a mapping key nor an expected
\* feature never makes the call raise: it is warned about and the vector is
\* returned, also when the call relies on the default categorical_mapping.
C2_UnknownAttributeNeverRaises ==
    (call # "none" /\ Expected # <<>>) =>
        \A f \in Numeric : ~Contains(Expected, f) =>
            /\ result.raised = "none"
            /\ NumericalWarning(f) \in result.warnings
            /\ result.df.columns = Expected

\* C3 as stated: a categorical attribute whose derived column P_value is
\* expected gets that column 1 and every other expected column named P_* 0,
\* whatever the other attributes and mapping entries are.
C3_OneHotExclusive ==
    Returned =>
        \A o \in Present : Contains(Expected, Derived(o)) =>
            /\ Cell(result.df, Derived(o)) = PyInt(1)
            /\ \A c \in Range(Expected) :
                   (c # Derived(o) /\ StartsWith(c, UsedMapping[o] \o "_"))
                       => Cell(result.df, c) = PyInt(0)

\* C3 amended: the derived column is 1, and every other expected column
\* named P_* is 0 unless the input record supplies that column name itself as
\* a non-mapping attribute (the slot then holds that value) or another
\* mapping entry present in the input derives it (the slot is then 1).
C3_OneHotAmended ==
    Returned =>
        \A o \in Present : Contains(Expected, Derived(o)) =>
            /\ Cell(result.df, Derived(o)) = PyInt(1)
            /\ \A c \in Range(Expected) :
                   (c # Derived(o) /\ StartsWith(c, UsedMapping[o] \o "_")) =>
                       IF \E q \in Present : Derived(q) = c
                       THEN Cell(result.df, c) = PyInt(1)
                       ELSE IF c \in Numeric
                            THEN Cell(result.df, c) = input_dict[c]
                            ELSE Cell(result.df, c) = PyInt(0)

C3_Witness ==
    /\ Returned
    /\ "T" \in Present /\ UsedMapping["T"] = "T" /\ input_dict["T"] = PyString("x")
    /\ Expected = <<"T_1", "T_x">>
    /\ "T_1" \notin DOMAIN input_dict
    /\ Cell(result.df, "T_x") = PyInt(1)
    /\ Cell(result.df, "T_1") = PyInt(0)

C9_NumericSlots ==
    Returned =>
        /\ \A f \in Numeric : Contains(Expected, f) =>
               Cell(result.df, f) = input_dict[f]
        /\ \A c \in Range(Expected) :
               (c \notin Numeric /\ ~\E q \in Present : Derived(q) = c)
                   => Cell(result.df, c) = PyInt(0)

\* C9 amended: the slot holds the attribute's input value unless a
\* categorical attribute present in the input derives a one-hot column of
\* that same name, in which case the slot is 1; every expected feature given
\* neither is 0, a mapping key that is an expected feature included.
C9_NumericSlotsAmended ==
    Returned =>
        /\ \A f \in Numeric : Contains(Expected, f) =>
               IF \E q \in Present : Derived(q) = f
               THEN Cell(result.df, f) = PyInt(1)
               ELSE Cell(result.df, f) = input_dict[f]
        /\ \A c \in Range(Expected) :
               (c \notin Numeric /\ ~\E q \in Present : Derived(q) = c)
                   => Cell(result.df, c) = PyInt(0)

C9_Witness ==
    /\ Returned /\ call = "explicit"
    /\ Expected = <<"A", "T">>
    /\ "A" \in Numeric /\ input_dict["A"] = PyString("x")
    /\ "T" \in Present
    /\ Cell(result.df, "A") = PyString("x")
    /\ Cell(result.df, "T") = PyInt(0)

-----------------------------------------------------------------------------
(* load_model_with_metadata *)

\* joblib.load(model_path): the pickled object, or the exception of a file
\* that is absent or is not a pickle
joblib_load(art) ==
    CASE art.kind = "missing" ->
           [raised |-> "FileNotFoundError",
            message |-> Msg("[Errno 2] No such file or directory"), value |-> NoObject]
      [] art.kind = "corrupt" ->
           [raised |-> "UnpicklingError",
            message |-> Msg("invalid load key"), value |-> NoObject]
      [] OTHER -> [raised |-> "none", message |-> NoMsg, value |-> art.obj]

\* d.get(key, default)
dict_get(d, key, default) == IF key \in DOMAIN d THEN d[key] ELSE default

LoadFailed(msg) ==
    [raised |-> "ValueError", message |-> msg, model |-> NoObject,
     feature_names |-> PyList(<<>>), categorical_features |-> PyList(<<>>),
     training_columns |-> PyList(<<>>)]

\* the loader reading the feature list under the key 'expected_features'
load_model_with_metadata_WrongKey(art) ==
    LET loaded == joblib_load(art)
        model_data == loaded.value
    IN IF loaded.raised # "none"
       THEN LoadFailed(Wrap("Error loading model: ", loaded.message))
       ELSE IF model_data.type = "dict" /\ "model" \in DOMAIN model_data.dict
       THEN [raised |-> "none", message |-> NoMsg,
             model |-> model_data.dict["model"],
             feature_names |-> dict_get(model_data.dict, "expected_features", PyList(<<>>)),
             categorical_features |->
                 dict_get(model_data.dict, "categorical_features", PyList(<<>>)),
             training_columns |->
                 dict_get(model_data.dict, "training_columns", PyList(<<>>))]
       ELSE [raised |-> "none", message |-> NoMsg, model |-> model_data,
             feature_names |-> PyList(<<>>), categorical_features |-> PyList(<<>>),
             training_columns |-> PyList(<<>>)]

load_model_with_metadata(art) ==
    LET loaded == joblib_load(art)
        model_data == loaded.value
    IN IF loaded.raised # "none"
       THEN LoadFailed(Wrap("Error loading model: ", loaded.message))
       ELSE IF model_data.type = "dict" /\ "model" \in DOMAIN model_data.dict
       THEN [raised |-> "none", message |-> NoMsg,
             model |-> model_data.dict["model"],
             feature_names |-> dict_get(model_data.dict, "feature_names", PyList(<<>>)),
             categorical_features |->
                 dict_get(model_data.dict, "categorical_features", PyList(<<>>)),
             training_columns |->
                 dict_get(model_data.dict, "training_columns", PyList(<<>>))]
       ELSE [raised |-> "none", message |-> NoMsg, model |-> model_data,
             feature_names |-> PyList(<<>>), categorical_features |-> PyList(<<>>),
             training_columns |-> PyList(<<>>)]

-----------------------------------------------------------------------------
(* predict_fraud *)

\* model.predict(input_data) and model.predict_proba(input_data)[:, 1]: an
\* object without the methods raises AttributeError; a fitted estimator whose
\* transformer selects columns by name raises ValueError naming the columns
\* the frame lacks; otherwise the label and the positive-class probability
model_predict(mdl, input_data) ==
    IF mdl.type # "estimator"
    THEN [raised |-> "AttributeError",
          message |-> Msg("'dict' object has no attribute 'predict'"),
          prediction |-> None, probability |-> None]
    ELSE IF ~(mdl.required \subseteq Range(input_data.columns))
    THEN [raised |-> "ValueError",
          message |-> [text |-> "columns are missing: ",
                       names |-> mdl.required \ Range(input_data.columns)],
          prediction |-> None, probability |-> None]
    ELSE [raised |-> "none", message |-> NoMsg,
          prediction |-> mdl.label, probability |-> mdl.proba]

\* predict_fraud with a handler that gives up quietly: return None, None
predict_fraud_Swallow(mdl, input_data) ==
    LET r == model_predict(mdl, input_data)
    IN IF r.raised # "none"
       THEN [raised |-> "none", message |-> NoMsg,
             prediction |-> None, probability |-> None]
       ELSE r

predict_fraud(mdl, input_data) ==
    LET r == model_predict(mdl, input_data)
    IN IF r.raised # "none"
       THEN [raised |-> "ValueError", message |-> Wrap("Prediction error: ", r.message),
             prediction |-> None, probability |-> None]
       ELSE r

-----------------------------------------------------------------------------
(* main *)

CATEGORICAL_MAPPING ==
    [Transaction_Type |-> "Transaction_Type",
     Device_Type |-> "Device_Type",
     Location |-> "Location",
     Merchant_Category |-> "Merchant_Category",
     Authentication_Method |-> "Authentication_Method"]

transaction_data ==
    [Transaction_Amount |-> PyInt(1500),
     Transaction_Type |-> PyString("Online"),
     Account_Balance |-> PyInt(5000),
     Device_Type |-> PyString("Mobile"),
     Location |-> PyString("New York"),
     Merchant_Category |-> PyString("Electronics"),
     IP_Address_Flag |-> PyInt(1),
     Daily_Transaction_Count |-> PyInt(10),
     Avg_Transaction_Amount_7d |-> PyInt(200),
     Failed_Transaction_Count_7d |-> PyInt(3),
     Transaction_Distance |-> PyInt(1500),
     Authentication_Method |-> PyString("Password"),
     Risk_Score |-> PyFloat(9),
     Is_Weekend |-> PyInt(0),
     Hour |-> PyInt(3),
     DayOfWeek |-> PyInt(4),
     Is_Night |-> PyInt(1),
     Amount_to_Balance_Ratio |-> PyFloat((1500 * 10) \div 5000),
     Amount_Deviation |-> PyInt(1500 - 200),
     High_Risk_Category |-> PyInt(1),
     Previous_Fraudulent_Activity |-> PyInt(0)]

\* threshold = 0.5
threshold == [num |-> 1, den |-> 2]

\* `probability >= threshold`
is_alert_Inclusive(p) == p * threshold.den >= threshold.num * ProbScale

\* `probability > threshold`, for the probability p / ProbScale
is_alert(p) == p * threshold.den > threshold.num * ProbScale

RECURSIVE Lines(_)
\* the lines of a set of warnings, one after the other
Lines(ws) ==
    IF ws = {} THEN <<>>
    ELSE LET w == CHOOSE x \in ws : TRUE IN <<w>> \o Lines(ws \ {w})

Order == <<"load", "features", "build", "predict", "print">>

\* the handler ending with sys.exit(0)
Except_ExitZero(step, msg) ==
    /\ stderr' = Append(stderr, Wrap("Error: ", msg))
    /\ exit_status' = 0
    /\ failed' = step
    /\ pc' = "done"

\* except Exception as e: print(f"Error: {str(e)}", file=sys.stderr); sys.exit(1)
Except(step, msg) ==
    /\ stderr' = Append(stderr, Wrap("Error: ", msg))
    /\ exit_status' = 1
    /\ failed' = step
    /\ pc' = "done"

\* model, feature_names, ... = load_model_with_metadata(MODEL_PATH)
Load ==
    /\ pc = "load"
    /\ steps' = Append(steps, "load")
    /\ LET r == load_model_with_metadata(artifact)
       IN IF r.raised # "none"
          THEN /\ Except("load", r.message)
               /\ UNCHANGED <<model, feature_names, categorical_features,
                              training_columns, stdout>>
          ELSE /\ model' = r.model
               /\ feature_names' = r.feature_names
               /\ categorical_features' = r.categorical_features
               /\ training_columns' = r.training_columns
               /\ stdout' = Append(stdout, "Model loaded successfully")
               /\ pc' = "features"
               /\ UNCHANGED <<stderr, exit_status, failed>>
    /\ UNCHANGED <<artifact, input_df, prediction, probability, consulted, bvars>>

\* the two `if not feature_names:` blocks and the print of the features
DetermineFeatures ==
    /\ pc = "features"
    /\ steps' = Append(steps, "features")
    /\ LET first == Truth(feature_names)
           fallback == first = "False"
           names == IF fallback /\ model.has_feature_names_in
                    THEN model.feature_names_in_ ELSE feature_names
           out1 == IF fallback
                   THEN Append(stdout, "Warning: No feature names found in model metadata")
                   ELSE stdout
           out2 == IF fallback /\ ~model.has_feature_names_in /\ model.is_pipeline
                   THEN Append(out1, "Model is a pipeline but no feature names available")
                   ELSE out1
       IN IF first = "raise"
          THEN /\ Except("features", Msg(AmbiguousTruth))
               /\ UNCHANGED <<feature_names, stdout, consulted>>
          ELSE /\ consulted' = (consulted \/ fallback)
               /\ feature_names' = names
               /\ IF Truth(names) = "raise"
                  THEN /\ Except("features", Msg(AmbiguousTruth))
                       /\ stdout' = out2
                  ELSE IF Truth(names) = "False"
                  THEN /\ Except("features",
                                 Msg("Could not determine required features for model"))
                       /\ stdout' = out2
                  ELSE /\ stdout' = Append(out2, "Expected features:")
                       /\ pc' = "build"
                       /\ UNCHANGED <<stderr, exit_status, failed>>
    /\ UNCHANGED <<artifact, model, categorical_features, training_columns,
                   input_df, prediction, probability, bvars>>

\* input_df = prepare_input_data(transaction_data, feature_names,
\*                               categorical_mapping=CATEGORICAL_MAPPING)
Build ==
    /\ pc = "build"
    /\ steps' = Append(steps, "build")
    /\ LET r == prepare_input_data(transaction_data, feature_names,
                                   Mapping(CATEGORICAL_MAPPING))
       IN IF r.raised # "none"
          THEN /\ Except("build", Msg(r.message))
               /\ UNCHANGED <<input_df, stdout>>
          ELSE /\ input_df' = r.df
               /\ stdout' = stdout \o Lines(r.warnings)
               /\ pc' = "predict"
               /\ UNCHANGED <<stderr, exit_status, failed>>
    /\ UNCHANGED <<artifact, model, feature_names, categorical_features,
                   training_columns, prediction, probability, consulted, bvars>>

\* prediction, probability = predict_fraud(model, input_df)
Predict ==
    /\ pc = "predict"
    /\ steps' = Append(steps, "predict")
    /\ LET r == predict_fraud(model, input_df)
       IN IF r.raised # "none"
          THEN /\ Except("predict", r.message)
               /\ UNCHANGED <<prediction, probability>>
          ELSE /\ prediction' = r.prediction
               /\ probability' = r.probability
               /\ pc' = "print"
               /\ UNCHANGED <<stderr, exit_status, failed>>
    /\ UNCHANGED <<artifact, model, feature_names, categorical_features,
                   training_columns, input_df, stdout, consulted, bvars>>

AlertLine == "ALERT: This transaction is likely fraudulent!"
LegitimateLine == "This transaction appears legitimate."
ResultsLine == "Prediction Results:"
PredictionLine(p) ==
    "Fraud Prediction: " \o ToString(p) \o
        (IF p = 1 THEN " (Fraud)" ELSE " (Legitimate)")
ProbabilityLine(p) ==
    "Fraud Probability: " \o ToString(p) \o "/" \o ToString(ProbScale)

\* the `if prediction is not None:` block, then main returns
PrintResults ==
    /\ pc = "print"
    /\ steps' = Append(steps, "print")
    /\ stdout' = IF prediction # None
                 THEN stdout \o <<ResultsLine, PredictionLine(prediction),
                                  ProbabilityLine(probability),
                                  IF is_alert(probability)
                                  THEN AlertLine ELSE LegitimateLine>>
                 ELSE stdout
    /\ exit_status' = 0
    /\ pc' = "done"
    /\ UNCHANGED <<artifact, model, feature_names, categorical_features,
                   training_columns, input_df, prediction, probability,
                   stderr, consulted, failed, bvars>>

\* feature lists an artifact's metadata or an estimator may hold
MainFeatureNames == {"Transaction_Type_Online", "Transaction_Type"}
\* columns an estimator may have been fitted on
RequiredColumns == {"Transaction_Type_Online", "Transaction_Type"}

FeatureAttributes ==
    {PyList(l) : l \in Lists(MainFeatureNames, MaxMainFeatures)}
        \cup {NdArray(l) : l \in Lists(MainFeatureNames, MaxMainFeatures) \ {<<>>}}

Estimators ==
    {Estimator(TRUE, fni, pl, req, lb, pr) :
        fni \in FeatureAttributes, pl \in BOOLEAN, req \in SUBSET RequiredColumns,
        lb \in {0, 1}, pr \in 0..ProbScale}
    \cup {Estimator(FALSE, PyList(<<>>), pl, req, lb, pr) :
        pl \in BOOLEAN, req \in SUBSET RequiredColumns,
        lb \in {0, 1}, pr \in 0..ProbScale}

MetadataKeys == {"feature_names", "categorical_features", "training_columns"}

\* dicts with any of the metadata keys, with or without a 'model' slot
SavedDicts ==
    {[k \in ks |-> CASE k = "model" -> m
                     [] k = "feature_names" -> PyList(fn)
                     [] k = "categorical_features" -> PyList(<<"Transaction_Type">>)
                     [] OTHER -> PyList(<<"Transaction_Amount", "Transaction_Type">>)] :
        ks \in {{"model"} \cup x : x \in SUBSET MetadataKeys},
        m \in Estimators, fn \in Lists(MainFeatureNames, MaxMainFeatures)}
    \cup
    {[k \in ks |-> CASE k = "feature_names" -> PyList(fn)
                     [] k = "categorical_features" -> PyList(<<"Transaction_Type">>)
                     [] OTHER -> PyList(<<"Transaction_Amount", "Transaction_Type">>)] :
        ks \in SUBSET MetadataKeys, fn \in Lists(MainFeatureNames, MaxMainFeatures)}

Artifacts ==
    {NoArtifact, CorruptArtifact}
        \cup {Pickled(m) : m \in Estimators}
        \cup {Pickled(DictObject(d)) : d \in SavedDicts}

BuilderIdle ==
    /\ input_dict = EmptyDict
    /\ expected_features = PyList(<<>>)
    /\ categorical_mapping = EmptyDict
    /\ call = "none"
    /\ result = Raised("none", "")

Init ==
    /\ artifact \in Artifacts
    /\ pc = "load"
    /\ model = NoObject
    /\ feature_names = PyList(<<>>)
    /\ categorical_features = PyList(<<>>)
    /\ training_columns = PyList(<<>>)
    /\ input_df = NoFrame
    /\ prediction = None
    /\ probability = None
    /\ stdout = <<>>
    /\ stderr = <<>>
    /\ exit_status = -1
    /\ steps = <<>>
    /\ consulted = FALSE
    /\ failed = "none"
    /\ BuilderIdle

Next == Load \/ DetermineFeatures \/ Build \/ Predict \/ PrintResults

Spec == Init /\ [][Next]_vars

-----------------------------------------------------------------------------
(* Properties of load_model_with_metadata, predict_fraud and main *)

IsPrefix(a, b) == Len(a) <= Len(b) /\ SubSeq(b, 1, Len(a)) = a
Ran(step) == Contains(steps, step)

\* the artifact is a dict with a 'model' slot
IsContainer ==
    /\ artifact.kind = "object"
    /\ artifact.obj.type = "dict"
    /\ "model" \in DOMAIN artifact.obj.dict
\* the model and the feature list saved in the artifact
SavedModel == IF IsContainer THEN artifact.obj.dict["model"] ELSE artifact.obj
SavedFeatureNames ==
    IF IsContainer /\ "feature_names" \in DOMAIN artifact.obj.dict
    THEN artifact.obj.dict["feature_names"] ELSE PyList(<<>>)
\* columns the model selects that the built frame lacks
MissingColumns == model.required \ Range(input_df.columns)

\* C5: when the built vector lacks columns the loaded model requires,
\* predict_fraud fails with a prediction error wrapping the "columns are
\* missing" cause that names exactly the missing columns, no label or
\* probability is returned and the run ends with status 1; when the columns
\* are all there the label and the positive-class probability are returned.
C5_MissingColumnsFail ==
    (Ran("predict") /\ model.type = "estimator") =>
        IF MissingColumns # {}
        THEN /\ failed = "predict"
             /\ stderr = <<[text |-> "Error: Prediction error: columns are missing: ",
                            names |-> MissingColumns]>>
             /\ prediction = None /\ probability = None
             /\ pc = "done" /\ exit_status = 1
        ELSE /\ failed = "none"
             /\ prediction = model.label
             /\ probability = model.proba
             /\ stderr = <<>>

C5_Witness ==
    /\ Ran("predict")
    /\ feature_names = PyList(<<"Transaction_Type_Online">>)
    /\ model.type = "estimator"
    /\ model.required = {"Transaction_Type_Online", "Transaction_Type"}
    /\ stderr = <<[text |-> "Error: Prediction error: columns are missing: ",
                   names |-> {"Transaction_Type"}]>>
    /\ exit_status = 1

\* C6: the steps run in the order load, features, build, predict, print; a
\* failing step writes the error to standard error, is the last step run,
\* leaves no prediction result or classification message on standard output
\* and ends the process with status 1; the status is 0 exactly when no step
\* failed, and then all five steps ran.
C6_FailFast ==
    /\ IsPrefix(steps, Order)
    /\ pc # "done" => (exit_status = -1 /\ failed = "none")
    /\ pc = "done" => (exit_status \in {0, 1} /\ (exit_status = 0 <=> failed = "none"))
    /\ failed = "none" => stderr = <<>>
    /\ exit_status = 0 => steps = Order
    /\ failed # "none" =>
           /\ pc = "done" /\ exit_status = 1
           /\ Len(stderr) = 1 /\ StartsWith(stderr[1].text, "Error: ")
           /\ steps # <<>> /\ steps[Len(steps)] = failed
           /\ \A i \in 1..Len(stdout) :
                  stdout[i] \notin {ResultsLine, AlertLine, LegitimateLine}
    /\ (Ran("load") /\ artifact.kind # "object") => failed = "load"
    /\ (Ran("predict") /\ (model.type # "estimator" \/ MissingColumns # {}))
           => failed = "predict"

C6_Witness ==
    /\ failed = "predict"
    /\ steps = <<"load", "features", "build", "predict">>
    /\ exit_status = 1
    /\ Len(stderr) = 1
    /\ stdout[Len(stdout)] # AlertLine /\ stdout[Len(stdout)] # LegitimateLine

\* C7: loading a dict artifact with a 'model' slot returns that model, the
\* embedded feature list unchanged, and an empty list for every metadata list
\* the dict lacks; any other object is returned whole as the model with empty
\* lists; a file that cannot be deserialized surfaces as a load error
\* wrapping the cause.
C7_LoadRoundTrip ==
    /\ pc = "features" =>
           /\ artifact.kind = "object"
           /\ IF IsContainer
              THEN LET d == artifact.obj.dict
                   IN /\ model = d["model"]
                      /\ feature_names =
                             IF "feature_names" \in DOMAIN d
                             THEN d["feature_names"] ELSE PyList(<<>>)
                      /\ categorical_features =
                             IF "categorical_features" \in DOMAIN d
                             THEN d["categorical_features"] ELSE PyList(<<>>)
                      /\ training_columns =
                             IF "training_columns" \in DOMAIN d
                             THEN d["training_columns"] ELSE PyList(<<>>)
              ELSE /\ model = artifact.obj
                   /\ feature_names = PyList(<<>>)
                   /\ categorical_features = PyList(<<>>)
                   /\ training_columns = PyList(<<>>)
    /\ (Ran("load") /\ artifact.kind # "object") =>
           /\ failed = "load"
           /\ Len(stderr) = 1
           /\ StartsWith(stderr[1].text, "Error: Error loading model: ")
           /\ Len(stderr[1].text) > Len("Error: Error loading model: ")

C7_Witness ==
    /\ pc = "features"
    /\ IsContainer
    /\ "feature_names" \in DOMAIN artifact.obj.dict
    /\ "training_columns" \notin DOMAIN artifact.obj.dict
    /\ feature_names = PyList(<<"Transaction_Type_Online", "Transaction_Type">>)
    /\ training_columns = PyList(<<>>)

\* C8: with an empty metadata feature list, a model exposing
\* feature_names_in_ with at least one name supplies the expected features and
\* the run goes on to build and predict; without it the run fails with
\* 'Could not determine required features for model' before the builder; with
\* a non-empty metadata list the model's attribute is never consulted.
C8_FallbackProceeds ==
    (pc = "done" /\ artifact.kind = "object") =>
        IF SavedFeatureNames.items = <<>>
        THEN IF SavedModel.has_feature_names_in
                  /\ Len(SavedModel.feature_names_in_.items) >= 1
             THEN /\ feature_names = SavedModel.feature_names_in_
                  /\ failed # "features"
                  /\ Ran("build") /\ Ran("predict")
             ELSE /\ failed = "features"
                  /\ stderr = <<Msg("Error: Could not determine required features for model")>>
                  /\ ~Ran("build") /\ ~Ran("predict")
        ELSE ~consulted

\* C10: after a successful prediction main prints the label and the
\* probability and then exactly one classification message, the ALERT message
\* exactly when the probability is strictly above 0.5, whatever the label.
C10_ThresholdMessage ==
    (pc = "done" /\ failed = "none") =>
        /\ Len(stdout) >= 4
        /\ LET n == Len(stdout)
           IN /\ stdout[n - 3] = ResultsLine
              /\ stdout[n - 2] = PredictionLine(prediction)
              /\ stdout[n - 1] = ProbabilityLine(probability)
              /\ stdout[n] = IF 2 * probability > ProbScale
                             THEN AlertLine ELSE LegitimateLine
        /\ Cardinality({i \in 1..Len(stdout) :
                          stdout[i] \in {AlertLine, LegitimateLine}}) = 1

C10_Witness ==
    /\ pc = "done" /\ failed = "none"
    /\ prediction = 1
    /\ 2 * probability = ProbScale
    /\ stdout[Len(stdout)] = LegitimateLine

====
